---- MODULE Spec2Model ----
(***************************************************************************)
(* Daily unique-customer analytics: the aggregator (analytics.py), the     *)
(* test-data generator (generate_test_data.py) and the table inspector     *)
(* (check_data.py), with the two remote stores they talk to.               *)
(*                                                                         *)
(* Python values that may be None are modelled as options: None is <<>>,   *)
(* a value v is <<v>>.                                                     *)
(***************************************************************************)
EXTENDS Integers, Sequences, FiniteSets, TLC

VARIABLES
    env,            \* os.environ: SUPABASE_URL, SUPABASE_SERVICE_ROLE_KEY, SUPABASE_ANON_KEY
    clock,          \* the current UTC instant, [date, hour]
    ticks,          \* hours elapsed since the initial state
    logs,           \* the terminal_logs table, rows in insertion order
    store,          \* the DynamoDB summary table, a set of items
    \* ---- aggregator (analytics.py __main__)
    pc,             \* position of the aggregator run
    calls,          \* remote calls the current aggregator run has issued
    df,             \* rows returned by the fetch
    now_utc,        \* the instant read at line 135
    target_date,    \* option: the target date of the run
    unique_shop_ids,\* shops of the per-shop loop, in loop order
    idx,            \* index of the next shop of the loop
    msg,            \* the last informational message
    store0,         \* history: the summary table when the run started
    basis,          \* history: per summary key, how many rows the writing run fetched
    \* ---- test-data generator (generate_test_data.py)
    gpc,            \* position of the generator run
    gargs,          \* the arguments of generate_test_data
    shop_ids,       \* the shops rows are generated for
    day_offset,     \* the outer loop's variable
    shop_i,         \* index in shop_ids of the inner loop's next shop
    all_data,       \* the number of rows generated so far, len(all_data)
    batch_i,        \* the insert loop's variable i
    total_inserted, \* the generator's own count of inserted rows
    gcalls,         \* insert calls issued: the rows <<first, last>> of each batch
    gfailed,        \* history: the number of insert calls that raised
    gtable,         \* the rows of this run that are in terminal_logs
    \* ---- table inspector (check_data.py)
    cpc,            \* position of the inspector run
    ccalls,         \* remote calls the inspector has issued
    ccount,         \* option: result.count
    cprinted        \* sample records printed

aggVars == <<pc, calls, df, now_utc, target_date, unique_shop_ids, idx, msg, store0, basis>>
genVars == <<gpc, gargs, shop_ids, day_offset, shop_i, all_data, batch_i, total_inserted,
            gcalls, gfailed, gtable>>
chkVars == <<cpc, ccalls, ccount, cprinted>>
vars == <<env, clock, ticks, logs, store, aggVars, genVars, chkVars>>

----------------------------------------------------------------------------
(* Bounds of the model *)

MaxLogRows == 2     \* rows the terminals append
MaxTicks == 2       \* hours the clock advances

----------------------------------------------------------------------------
(* Python values *)

None == <<>>
Some(v) == <<v>>
Val(o) == o[1]

\* bool(x) of an optional string: None and "" are falsy
Truthy(o) == o # None /\ o # Some("")

\* a or b
PyOr(a, b) == IF Truthy(a) THEN a ELSE b

\* Series.dropna()
DropNa(s) == SelectSeq(s, LAMBDA o : o # None)

\* Series.astype(str) on a series without nulls
AsTypeStr(s) == [i \in DOMAIN s |-> Val(s[i])]

\* Series.nunique()
NUnique(s) == Cardinality({s[i] : i \in DOMAIN s})

\* Series.unique(): the distinct values in order of first appearance
RECURSIVE Unique(_)
Unique(s) ==
    IF s = <<>> THEN <<>>
    ELSE LET front == Unique(SubSeq(s, 1, Len(s) - 1))
             last == s[Len(s)]
         IN IF \E i \in DOMAIN front : front[i] = last THEN front ELSE Append(front, last)

----------------------------------------------------------------------------
(* Calendar dates: datetime.date as [y, m, d] *)

IsLeap(y) == (y % 4 = 0) /\ ((y % 100 # 0) \/ (y % 400 = 0))

DaysInMonth(y, m) ==
    IF m = 2 THEN (IF IsLeap(y) THEN 29 ELSE 28)
    ELSE IF m \in {4, 6, 9, 11} THEN 30 ELSE 31

\* date - timedelta(days=1)
MinusOneDay(dt) ==
    IF dt.d > 1 THEN [dt EXCEPT !.d = dt.d - 1]
    ELSE IF dt.m > 1 THEN [y |-> dt.y, m |-> dt.m - 1, d |-> DaysInMonth(dt.y, dt.m - 1)]
    ELSE [y |-> dt.y - 1, m |-> 12, d |-> 31]

\* date + one day (the clock passing midnight)
PlusOneDay(dt) ==
    IF dt.d < DaysInMonth(dt.y, dt.m) THEN [dt EXCEPT !.d = dt.d + 1]
    ELSE IF dt.m < 12 THEN [y |-> dt.y, m |-> dt.m + 1, d |-> 1]
    ELSE [y |-> dt.y + 1, m |-> 1, d |-> 1]

\* date.isoformat(): the text YYYY-MM-DD, as its three fields
IsoFormat(dt) == <<dt.y, dt.m, dt.d>>

\* Series.dt.date of a UTC timestamp
DateOf(ts) == ts.date

----------------------------------------------------------------------------
(* Input domains *)

ShopIds == {"A", "B"}
PhoneNumbers == {"+6581234567", "+6587654321"}

\* the instant the system starts at: the last hour of a year
StartClocks ==
    { [date |-> [y |-> 2025, m |-> 12, d |-> 31], hour |-> 23] }

SET == Some("set")
EnvFull == [url |-> SET, srk |-> SET, anon |-> None]
EnvNoUrl == [url |-> None, srk |-> SET, anon |-> None]
EnvValues == {None, Some(""), SET}
AllEnvs == [url : EnvValues, srk : EnvValues, anon : EnvValues]

----------------------------------------------------------------------------
(* get_supabase_client: the credentials test, the same in the three scripts *)

\* a variant that takes an empty string for a credential
CredsOkUnsetOnly(e) == e.url # None /\ (e.srk # None \/ e.anon # None)

CredsOk(e) == Truthy(e.url) /\ Truthy(PyOr(e.srk, e.anon))

----------------------------------------------------------------------------
(* analytics.py *)

Column(d, c) == [i \in DOMAIN d |-> d[i][c]]

\* a variant without the first-hour rule
TargetDateToday(now) == now.date

\* lines 137-142
TargetDate(now) == IF now.hour = 0 THEN MinusOneDay(now.date) ELSE now.date

\* a variant that keeps the rows of every date
DfTodayUnfiltered(d, target) == d

\* line 145
DfToday(d, target) == SelectSeq(d, LAMBDA r : DateOf(r.created_at) = target)

\* line 152
UniqueShopIds(today) == Unique(DropNa(Column(today, "shop_id")))

\* a variant that keeps the rows of every shop
DfShopAllRows(today, shop_id) == today

\* line 160
DfShop(today, shop_id) == SelectSeq(today, LAMBDA r : r.shop_id = shop_id)

\* a variant that counts rows, not distinct values
UniqueCustomersCountingRows(shop_rows) == Len(DropNa(Column(shop_rows, "phone_number")))

\* line 164
UniqueCustomers(shop_rows) == NUnique(AsTypeStr(DropNa(Column(shop_rows, "phone_number"))))

\* a variant that adds the item and keeps the one stored under its key
PutItemKeepingOld(tbl, item) == tbl \cup {item}

\* DynamoDB put_item: the item replaces the one stored under its key
PutItem(tbl, item) ==
    {x \in tbl : ~(x.shop_id = item.shop_id /\ x.date = item.date)} \cup {item}

\* lines 111-118
SummaryItem(shop_id, date_str, unique_customers, now) ==
    [shop_id |-> shop_id, date |-> date_str, unique_customers |-> unique_customers,
     updated_at |-> now]

KeyOf(item) == <<item.shop_id, item.date>>

AggAtRest == pc \in {"idle", "done", "failed", "RuntimeError"}

\* lines 125, 63, 38-42: the credentials are missing, RuntimeError before the query
AggCredError ==
    /\ AggAtRest
    /\ ~CredsOk(env)
    /\ pc' = "RuntimeError"
    /\ calls' = <<>>
    /\ df' = <<>>
    /\ now_utc' = None
    /\ target_date' = None
    /\ unique_shop_ids' = <<>>
    /\ idx' = 1
    /\ msg' = None
    /\ store0' = store
    /\ UNCHANGED <<env, clock, ticks, logs, store, basis, genVars, chkVars>>

\* lines 125, 63-77, 90-91: fetch every row of terminal_logs
AggFetch ==
    /\ AggAtRest
    /\ CredsOk(env)
    /\ pc' = "fetched"
    /\ calls' = <<[op |-> "select", table |-> "terminal_logs"]>>
    /\ df' = logs
    /\ now_utc' = None
    /\ target_date' = None
    /\ unique_shop_ids' = <<>>
    /\ idx' = 1
    /\ msg' = None
    /\ store0' = store
    /\ UNCHANGED <<env, clock, ticks, logs, store, basis, genVars, chkVars>>

\* lines 128-129
AggNoData ==
    /\ pc = "fetched"
    /\ df = <<>>
    /\ pc' = "done"
    /\ msg' = Some("No data returned from Supabase.")
    /\ UNCHANGED <<env, clock, ticks, logs, store, calls, df, now_utc, target_date,
                   unique_shop_ids, idx, store0, basis, genVars, chkVars>>

\* a variant that raises when the target date has no row
AggNoDataForDateRaises ==
    /\ pc = "fetched"
    /\ df # <<>>
    /\ DfToday(df, TargetDate(clock)) = <<>>
    /\ now_utc' = Some(clock)
    /\ target_date' = Some(TargetDate(clock))
    /\ pc' = "failed"
    /\ UNCHANGED <<env, clock, ticks, logs, store, calls, df, unique_shop_ids, idx, msg,
                   store0, basis, genVars, chkVars>>

\* lines 135-149: no row of the target date
AggNoDataForDate ==
    /\ pc = "fetched"
    /\ df # <<>>
    /\ DfToday(df, TargetDate(clock)) = <<>>
    /\ now_utc' = Some(clock)
    /\ target_date' = Some(TargetDate(clock))
    /\ pc' = "done"
    /\ msg' = Some("No data for target date")
    /\ UNCHANGED <<env, clock, ticks, logs, store, calls, df, unique_shop_ids, idx,
                   store0, basis, genVars, chkVars>>

\* lines 135-155: the target date, its rows and their shops
AggFilter ==
    /\ pc = "fetched"
    /\ df # <<>>
    /\ LET target == TargetDate(clock)
           today == DfToday(df, target)
           shops == UniqueShopIds(today)
       IN /\ today # <<>>
          /\ now_utc' = Some(clock)
          /\ target_date' = Some(target)
          /\ unique_shop_ids' = shops
          /\ idx' = 1
          /\ pc' = IF shops = <<>> THEN "done" ELSE "loop"
    /\ msg' = Some("Processing shops")
    /\ UNCHANGED <<env, clock, ticks, logs, store, calls, df, store0, basis,
                   genVars, chkVars>>

\* the item of the loop's current shop, lines 160-172 and 111-118
LoopItem ==
    LET shop_id == unique_shop_ids[idx]
        today == DfToday(df, Val(target_date))
    IN SummaryItem(Val(shop_id), IsoFormat(Val(target_date)),
                   UniqueCustomers(DfShop(today, shop_id)), clock)

\* lines 159-175: one iteration of the loop, the put_item succeeds
AggSave ==
    /\ pc = "loop"
    /\ idx <= Len(unique_shop_ids)
    /\ store' = PutItem(store, LoopItem)
    /\ calls' = Append(calls, [op |-> "put_item", key |-> KeyOf(LoopItem), ok |-> TRUE])
    /\ basis' = [k \in DOMAIN basis \cup {KeyOf(LoopItem)} |->
                    IF k = KeyOf(LoopItem) THEN Len(df) ELSE basis[k]]
    /\ idx' = idx + 1
    /\ pc' = IF idx + 1 > Len(unique_shop_ids) THEN "done" ELSE "loop"
    /\ msg' = Some("Shop")
    /\ UNCHANGED <<env, clock, ticks, logs, df, now_utc, target_date, unique_shop_ids,
                   store0, genVars, chkVars>>

\* a variant that undoes the run's earlier writes when a put_item raises
AggSaveFailRollback ==
    /\ pc = "loop"
    /\ idx <= Len(unique_shop_ids)
    /\ calls' = Append(calls, [op |-> "put_item", key |-> KeyOf(LoopItem), ok |-> FALSE])
    /\ pc' = "failed"
    /\ store' = store0
    /\ UNCHANGED <<env, clock, ticks, logs, df, now_utc, target_date,
                   unique_shop_ids, idx, msg, store0, basis, genVars, chkVars>>

\* lines 168-172: the put_item raises, nothing catches it
AggSaveFail ==
    /\ pc = "loop"
    /\ idx <= Len(unique_shop_ids)
    /\ calls' = Append(calls, [op |-> "put_item", key |-> KeyOf(LoopItem), ok |-> FALSE])
    /\ pc' = "failed"
    /\ UNCHANGED <<env, clock, ticks, logs, store, df, now_utc, target_date,
                   unique_shop_ids, idx, msg, store0, basis, genVars, chkVars>>

----------------------------------------------------------------------------
(* The environment of the aggregator *)

\* a point-of-sale terminal appends a row; rows are never changed or removed
TerminalAppend ==
    /\ Len(logs) < MaxLogRows
    /\ \E s \in {None} \cup {Some(x) : x \in ShopIds},
          p \in {None} \cup {Some(x) : x \in PhoneNumbers} :
          logs' = Append(logs, [shop_id |-> s, phone_number |-> p, created_at |-> clock])
    /\ UNCHANGED <<env, clock, ticks, store, aggVars, genVars, chkVars>>

\* an hour passes
Tick ==
    /\ ticks < MaxTicks
    /\ ticks' = ticks + 1
    /\ clock' = IF clock.hour = 23
                THEN [date |-> PlusOneDay(clock.date), hour |-> 0]
                ELSE [clock EXCEPT !.hour = clock.hour + 1]
    /\ UNCHANGED <<env, logs, store, aggVars, genVars, chkVars>>

InitAgg ==
    /\ pc = "idle"
    /\ calls = <<>>
    /\ df = <<>>
    /\ now_utc = None
    /\ target_date = None
    /\ unique_shop_ids = <<>>
    /\ idx = 1
    /\ msg = None
    /\ store0 = {}
    /\ basis = <<>>

InitGen ==
    /\ gpc = "idle"
    /\ shop_ids = <<>>
    /\ day_offset = 0
    /\ shop_i = 1
    /\ all_data = 0
    /\ batch_i = 0
    /\ total_inserted = 0
    /\ gcalls = <<>>
    /\ gfailed = 0
    /\ gtable = 0

\* the generator's defaults, lines 25-29, with the script never started
DefaultArgs == [num_shops |-> 5, num_logs_per_shop |-> 20, days_back |-> 0, shop_id |-> None]

InitChk ==
    /\ cpc = "idle"
    /\ ccalls = <<>>
    /\ ccount = None
    /\ cprinted = 0

Init ==
    /\ env \in {EnvFull, EnvNoUrl}
    /\ clock \in StartClocks
    /\ ticks = 0
    /\ logs = <<>>
    /\ store = {}
    /\ InitAgg
    /\ gargs = DefaultArgs
    /\ InitGen
    /\ InitChk

Next ==
    \/ TerminalAppend
    \/ Tick
    \/ AggCredError
    \/ AggFetch
    \/ AggNoData
    \/ AggNoDataForDate
    \/ AggFilter
    \/ AggSave
    \/ AggSaveFail

Spec == Init /\ [][Next]_vars

----------------------------------------------------------------------------
(* What the claims speak of, stated on the tables themselves *)

\* the day number of a date in the proleptic Gregorian calendar
DaysBeforeMonthTable == <<0, 31, 59, 90, 120, 151, 181, 212, 243, 273, 304, 334>>
GregorianLeap(y) == (y % 4 = 0 /\ y % 100 # 0) \/ y % 400 = 0
ToOrdinal(dt) ==
    (dt.y - 1) * 365 + ((dt.y - 1) \div 4) - ((dt.y - 1) \div 100) + ((dt.y - 1) \div 400)
    + DaysBeforeMonthTable[dt.m] + (IF dt.m > 2 /\ GregorianLeap(dt.y) THEN 1 ELSE 0)
    + dt.d

FromIso(t) == [y |-> t[1], m |-> t[2], d |-> t[3]]

\* indices of the rows of shop s on date d
RowsOf(tbl, s, d) ==
    {i \in DOMAIN tbl : tbl[i].shop_id = Some(s) /\ tbl[i].created_at.date = d}

\* the distinct non-null phone numbers of shop s on date d
DistinctPhones(tbl, s, d) ==
    {tbl[i].phone_number[1] : i \in {j \in RowsOf(tbl, s, d) : tbl[j].phone_number # None}}

\* the non-null shops with a row on date d
ShopsOn(tbl, d) == {s \in ShopIds : RowsOf(tbl, s, d) # {}}

\* index of the first row of shop s on date d
FirstRow(tbl, s, d) == CHOOSE i \in RowsOf(tbl, s, d) : \A j \in RowsOf(tbl, s, d) : i <= j

PutCalls == {i \in DOMAIN calls : calls[i].op = "put_item"}
OkPuts == {i \in PutCalls : calls[i].ok}
WrittenKeys == {calls[i].key : i \in OkPuts}
Elsewhere(tbl, ks) == {x \in tbl : KeyOf(x) \notin ks}
InfoMessages == {Some("No data returned from Supabase."), Some("No data for target date")}

\* C1: every summary a run has written for a shop holds, as unique_customers,
\* the number of distinct non-null phone numbers among the fetched rows of
\* that shop on the target date: duplicates count once, nulls count nothing.
C1_UniqueCustomers ==
    \A i \in OkPuts :
        LET k == calls[i].key
        IN /\ target_date # None
           /\ k[2] = IsoFormat(Val(target_date))
           /\ \E x \in store :
                 /\ KeyOf(x) = k
                 /\ x.unique_customers =
                        Cardinality(DistinctPhones(df, k[1], Val(target_date)))

\* a finished run wrote 1 for a shop with two rows of one phone number
C1_Witness ==
    /\ pc = "done"
    /\ \E x \in store :
          /\ KeyOf(x) \in WrittenKeys
          /\ x.unique_customers = 1
          /\ Cardinality(RowsOf(df, x.shop_id, FromIso(x.date))) = 2

\* C4: a run that ends without a write failure has written exactly the keys
\* (s, target date) of the non-null shops s with a fetched row on the target
\* date, each once, and every summary under another key is as it was.
C4_WrittenKeys ==
    (pc = "done" /\ target_date # None) =>
        /\ WrittenKeys = {<<s, IsoFormat(Val(target_date))>> : s \in ShopsOn(df, Val(target_date))}
        /\ \A i, j \in PutCalls : calls[i].key = calls[j].key => i = j
        /\ OkPuts = PutCalls
        /\ Elsewhere(store, WrittenKeys) = Elsewhere(store0, WrittenKeys)

\* a finished run wrote one shop, had fetched a row of another date too, and
\* left an older summary alone
C4_Witness ==
    /\ pc = "done"
    /\ Cardinality(WrittenKeys) = 1
    /\ \E i \in DOMAIN df : df[i].created_at.date # Val(target_date)
    /\ Elsewhere(store, WrittenKeys) # {}

\* C6: when the k-th upsert fails the run stops there: the calls are the fetch,
\* k-1 successful upserts and the failed one, in order of first appearance of
\* the shops; the first k-1 summaries are stored, everything else is as before.
C6_WriteFailure ==
    pc = "failed" =>
        LET d == Val(target_date)
            n == Len(calls)
            shopOf(i) == calls[i].key[1]
        IN /\ calls[1].op = "select"
           /\ PutCalls = 2..n
           /\ OkPuts = 2..(n - 1)
           /\ \A i \in PutCalls : shopOf(i) \in ShopsOn(df, d)
           /\ \A i, j \in PutCalls : i < j => FirstRow(df, shopOf(i), d) < FirstRow(df, shopOf(j), d)
           /\ \A s \in ShopsOn(df, d) :
                 FirstRow(df, s, d) < FirstRow(df, shopOf(n), d) => \E i \in OkPuts : shopOf(i) = s
           /\ \A i \in OkPuts :
                 \E x \in store : /\ KeyOf(x) = calls[i].key
                                  /\ x.unique_customers = Cardinality(DistinctPhones(df, shopOf(i), d))
           /\ Elsewhere(store, WrittenKeys) = Elsewhere(store0, WrittenKeys)

\* the second of two upserts failed: the first shop's summary is stored
C6_Witness ==
    /\ pc = "failed"
    /\ Len(calls) = 3
    /\ store # store0

\* C7: a run whose fetch returned nothing, or nothing of the target date, ends
\* normally with a message; it has written nothing and the summaries are as before.
C7_NoRows ==
    (/\ calls # <<>>
     /\ pc # "fetched"
     /\ \/ df = <<>>
        \/ target_date # None /\ \A i \in DOMAIN df : df[i].created_at.date # Val(target_date))
    => /\ pc = "done"
       /\ msg \in InfoMessages
       /\ PutCalls = {}
       /\ store = store0

\* rows were fetched, none of the target date, and summaries exist
C7_Witness ==
    /\ pc = "done"
    /\ df # <<>>
    /\ msg = Some("No data for target date")
    /\ store # {}

\* C5 as claimed: every stored summary agrees with the log table as it is now.
C5_SummaryMatchesLogs ==
    \A x \in store :
        x.unique_customers = Cardinality(DistinctPhones(logs, x.shop_id, FromIso(x.date)))

\* C5 amended: every stored summary agrees with the log table as it was when
\* the run that wrote the summary fetched it.
C5_SummaryMatchesFetched ==
    \A x \in store :
        /\ KeyOf(x) \in DOMAIN basis
        /\ basis[KeyOf(x)] <= Len(logs)
        /\ x.unique_customers =
              Cardinality(DistinctPhones(SubSeq(logs, 1, basis[KeyOf(x)]), x.shop_id, FromIso(x.date)))

\* a summary is stored and a row was appended after its run fetched
C5_Witness ==
    \E x \in store : basis[KeyOf(x)] < Len(logs) /\ x.unique_customers > 0

\* the step of one successful upsert
SaveStep == pc = "loop" /\ Len(calls') = Len(calls) + 1 /\ calls'[Len(calls')].ok

\* the summaries without their time of computation
WithoutTime(tbl) ==
    {[shop_id |-> x.shop_id, date |-> x.date, unique_customers |-> x.unique_customers] : x \in tbl}

\* the upsert rewrites a summary computed from the same rows
SameDataAgain ==
    /\ KeyOf(LoopItem) \in DOMAIN basis
    /\ basis[KeyOf(LoopItem)] = Len(df)

\* C3 as claimed: a second run over the same rows and target date leaves every
\* stored summary as the first run left it.
C3_SameSummary == [][(SaveStep /\ SameDataAgain) => store' = store]_vars

\* C3 amended: a second run over the same rows and target date leaves shop_id,
\* date and unique_customers of every stored summary as the first run left
\* them, with one item per key; updated_at becomes the time of the second write.
C3_SameSummaryButTime ==
    [][(SaveStep /\ SameDataAgain) =>
          /\ WithoutTime(store') = WithoutTime(store)
          /\ \A x, y \in store' : KeyOf(x) = KeyOf(y) => x = y
          /\ \A x \in store' : KeyOf(x) = KeyOf(LoopItem) => x.updated_at = clock]_vars

\* a summary is stored whose time of computation is an earlier hour than that
\* of the run now rewriting it from the same rows
C3_Witness ==
    /\ pc = "loop"
    /\ SameDataAgain
    /\ \E x \in store : KeyOf(x) = KeyOf(LoopItem) /\ x.updated_at # clock

----------------------------------------------------------------------------
(* The target-date rule over instants around month and year ends *)

D(y, m, d) == [y |-> y, m |-> m, d |-> d]

\* pairs <<a day, the day after>>
ConsecutiveDays ==
    { <<D(2025, 12, 31), D(2026, 1, 1)>>,
      <<D(2024, 2, 29), D(2024, 3, 1)>>,
      <<D(2025, 2, 28), D(2025, 3, 1)>>,
      <<D(2100, 2, 28), D(2100, 3, 1)>>,
      <<D(2026, 4, 30), D(2026, 5, 1)>>,
      <<D(2026, 1, 20), D(2026, 1, 21)>> }

LogRow(s, p, day, h) ==
    [shop_id |-> s, phone_number |-> p, created_at |-> [date |-> day, hour |-> h]]

\* the aggregator starts at any hour of the later day of a pair, over a table
\* with rows of both days
InitDates ==
    /\ env \in {EnvFull, EnvNoUrl}
    /\ \E p \in ConsecutiveDays, h \in 0..23 :
          /\ clock = [date |-> p[2], hour |-> h]
          /\ logs \in { <<>>,
                        <<LogRow(Some("A"), Some("+6581234567"), p[1], 10)>>,
                        <<LogRow(Some("A"), Some("+6581234567"), p[1], 10),
                          LogRow(Some("B"), Some("+6587654321"), p[2], 0)>> }
    /\ ticks = 0
    /\ store = {}
    /\ InitAgg
    /\ gargs = DefaultArgs
    /\ InitGen
    /\ InitChk

NextDates ==
    \/ Tick
    \/ AggCredError
    \/ AggFetch
    \/ AggNoData
    \/ AggNoDataForDate
    \/ AggFilter
    \/ AggSave
    \/ AggSaveFail

DateSpec == InitDates /\ [][NextDates]_vars

MonthLengthTable == <<31, 28, 31, 30, 31, 30, 31, 31, 30, 31, 30, 31>>
IsCalendarDate(dt) ==
    /\ dt.m \in 1..12
    /\ dt.d >= 1
    /\ dt.d <= MonthLengthTable[dt.m] + (IF dt.m = 2 /\ GregorianLeap(dt.y) THEN 1 ELSE 0)

\* C2: the target date of a run is the day before the date of the instant it
\* read when that instant's hour is 0, and that date itself at hours 1..23;
\* every summary the run writes carries the target date.
C2_TargetDate ==
    target_date # None =>
        LET now == Val(now_utc)
            t == Val(target_date)
        IN /\ IsCalendarDate(t)
           /\ ToOrdinal(t) = ToOrdinal(now.date) - (IF now.hour = 0 THEN 1 ELSE 0)
           /\ \A i \in PutCalls : calls[i].key[2] = <<t.y, t.m, t.d>>
           /\ \A i \in OkPuts : \E x \in store : KeyOf(x) = calls[i].key /\ x.date = <<t.y, t.m, t.d>>

\* a run in the first hour of a year wrote a summary dated in the year before
C2_Witness ==
    /\ pc = "done"
    /\ now_utc # None
    /\ Val(now_utc).hour = 0
    /\ \E x \in store : KeyOf(x) \in WrittenKeys /\ x.date[1] < Val(now_utc).date.y

----------------------------------------------------------------------------
(* generate_test_data.py *)

MaxShops == 2           \* num_shops ranges over 0..MaxShops
MaxDaysBack == 1        \* days_back ranges over 0..MaxDaysBack
MaxLogsPerShop == 55    \* the largest num_logs_per_shop

BatchSize == 100        \* batch_size, line 85
MinLogs == 5            \* the lower end of random.randint(5, num_logs_per_shop), line 61

Min(a, b) == IF a <= b THEN a ELSE b

GenArgs ==
    [num_shops : 0..MaxShops,
     num_logs_per_shop : {MinLogs - 1, MinLogs, MinLogs + 1, MaxLogsPerShop},
     days_back : 0..MaxDaysBack,
     shop_id : {None, Some(""), Some("shop-1")}]

\* lines 44-47: the given shop, or num_shops fresh UUIDs
ShopIdsFor(a) ==
    IF Truthy(a.shop_id) THEN <<Val(a.shop_id)>>
    ELSE [i \in 1..a.num_shops |-> "uuid-" \o ToString(i)]

\* a variant that draws from 1 on
RandIntFromOne(lo, hi) == 1..hi

\* random.randint(lo, hi): the values it may return
RandInt(lo, hi) == lo..hi

\* line 98: the rows <<first, last>> of the batch starting after row i
Batch(i, len) == <<i + 1, Min(i + BatchSize, len)>>
BatchLen(b) == b[2] - b[1] + 1

\* line 41, lines 16-20: the credentials are missing
GenCredError ==
    /\ gpc = "idle"
    /\ ~CredsOk(env)
    /\ gpc' = "RuntimeError"
    /\ UNCHANGED <<env, clock, ticks, logs, store, aggVars, chkVars, gargs, shop_ids,
                   day_offset, shop_i, all_data, batch_i, total_inserted, gcalls, gfailed,
                   gtable>>

\* lines 41-56: the client, the shops, the phone pool, the empty all_data
GenStart ==
    /\ gpc = "idle"
    /\ CredsOk(env)
    /\ shop_ids' = ShopIdsFor(gargs)
    /\ day_offset' = 0
    /\ shop_i' = 1
    /\ all_data' = 0
    /\ gpc' = "generate"
    /\ UNCHANGED <<env, clock, ticks, logs, store, aggVars, chkVars, gargs, batch_i,
                   total_inserted, gcalls, gfailed, gtable>>

InGenerateLoop ==
    /\ gpc = "generate"
    /\ day_offset <= gargs.days_back
    /\ shop_i <= Len(shop_ids)

\* lines 59-82: the rows of one shop on one day
GenLogs ==
    /\ InGenerateLoop
    /\ \E num_logs \in RandInt(MinLogs, gargs.num_logs_per_shop) :
          all_data' = all_data + num_logs
    /\ IF shop_i < Len(shop_ids)
       THEN shop_i' = shop_i + 1 /\ day_offset' = day_offset
       ELSE shop_i' = 1 /\ day_offset' = day_offset + 1
    /\ UNCHANGED <<env, clock, ticks, logs, store, aggVars, chkVars, gpc, gargs, shop_ids,
                   batch_i, total_inserted, gcalls, gfailed, gtable>>

\* line 61: random.randint over an empty range raises ValueError
GenValueError ==
    /\ InGenerateLoop
    /\ RandInt(MinLogs, gargs.num_logs_per_shop) = {}
    /\ gpc' = "ValueError"
    /\ UNCHANGED <<env, clock, ticks, logs, store, aggVars, chkVars, gargs, shop_ids,
                   day_offset, shop_i, all_data, batch_i, total_inserted, gcalls, gfailed,
                   gtable>>

GenerateLoopOver ==
    /\ gpc = "generate"
    /\ (day_offset > gargs.days_back \/ Len(shop_ids) = 0)

\* lines 90-92: nothing was generated
GenNoData ==
    /\ GenerateLoopOver
    /\ all_data = 0
    /\ gpc' = "done"
    /\ UNCHANGED <<env, clock, ticks, logs, store, aggVars, chkVars, gargs, shop_ids,
                   day_offset, shop_i, all_data, batch_i, total_inserted, gcalls, gfailed,
                   gtable>>

\* lines 85-97: on to the insert loop
GenBeginInsert ==
    /\ GenerateLoopOver
    /\ all_data # 0
    /\ batch_i' = 0
    /\ total_inserted' = 0
    /\ gpc' = "insert"
    /\ UNCHANGED <<env, clock, ticks, logs, store, aggVars, chkVars, gargs, shop_ids,
                   day_offset, shop_i, all_data, gcalls, gfailed, gtable>>

\* lines 97-100 and the loop's end: the insert call for the batch at i is issued
InsertCall ==
    /\ gpc = "insert"
    /\ batch_i < all_data
    /\ gcalls' = Append(gcalls, Batch(batch_i, all_data))
    /\ batch_i' = batch_i + BatchSize
    /\ gpc' = IF batch_i + BatchSize < all_data THEN "insert" ELSE "done"
    /\ UNCHANGED <<env, clock, ticks, logs, store, aggVars, chkVars, gargs, shop_ids,
                   day_offset, shop_i, all_data>>

\* lines 102-105: the response lists the inserted rows
GenInsertData ==
    /\ InsertCall
    /\ total_inserted' = total_inserted + BatchLen(Batch(batch_i, all_data))
    /\ gtable' = gtable + BatchLen(Batch(batch_i, all_data))
    /\ UNCHANGED gfailed

\* lines 106-109: the response has data None
GenInsertNone ==
    /\ InsertCall
    /\ total_inserted' = total_inserted + BatchLen(Batch(batch_i, all_data))
    /\ gtable' = gtable + BatchLen(Batch(batch_i, all_data))
    /\ UNCHANGED gfailed

\* lines 110-111: the call returned, its response lists no row
GenInsertNoData ==
    /\ InsertCall
    /\ gtable' = gtable + BatchLen(Batch(batch_i, all_data))
    /\ UNCHANGED <<total_inserted, gfailed>>

\* a variant in which a raised insert ends the run
GenInsertErrorAborts ==
    /\ gpc = "insert"
    /\ batch_i < all_data
    /\ gcalls' = Append(gcalls, Batch(batch_i, all_data))
    /\ gfailed' = gfailed + 1
    /\ gpc' = "failed"
    /\ UNCHANGED <<env, clock, ticks, logs, store, aggVars, chkVars, gargs, shop_ids,
                   day_offset, shop_i, all_data, batch_i, total_inserted, gtable>>

\* lines 112-119: the call raised; the error is printed and the loop goes on
GenInsertError ==
    /\ InsertCall
    /\ gfailed' = gfailed + 1
    /\ UNCHANGED <<total_inserted, gtable>>

InitGenerator ==
    /\ env \in {EnvFull, EnvNoUrl}
    /\ clock \in StartClocks
    /\ ticks = 0
    /\ logs = <<>>
    /\ store = {}
    /\ InitAgg
    /\ gargs \in GenArgs
    /\ InitGen
    /\ InitChk

NextGenerator ==
    \/ GenCredError
    \/ GenStart
    \/ GenLogs
    \/ GenValueError
    \/ GenNoData
    \/ GenBeginInsert
    \/ GenInsertData
    \/ GenInsertNone
    \/ GenInsertNoData
    \/ GenInsertError

GenSpec == InitGenerator /\ [][NextGenerator]_vars

\* the number of shops of the claim: one for a supplied shop_id, else num_shops
ShopCount == IF gargs.shop_id \notin {None, Some("")} THEN 1 ELSE gargs.num_shops

\* (shop, day) pairs the generator has finished
PairsDone == day_offset * ShopCount + (shop_i - 1)

Generating == gpc \in {"generate", "insert", "done"}

\* C9: with num_logs_per_shop >= 5 every (shop, day) pair gets between 5 and
\* num_logs_per_shop rows, over S shops and days_back + 1 days, so the rows
\* generated number between S*(days_back+1)*5 and S*(days_back+1)*num_logs_per_shop.
C9_RowCount ==
    /\ [](  (Generating /\ gargs.num_logs_per_shop >= 5) =>
              /\ Len(shop_ids) = ShopCount
              /\ all_data >= PairsDone * 5
              /\ all_data <= PairsDone * gargs.num_logs_per_shop
              /\ (gpc \in {"insert", "done"} => PairsDone = ShopCount * (gargs.days_back + 1)) )
    /\ [][ all_data' # all_data =>
              /\ all_data' - all_data \in 5..gargs.num_logs_per_shop
              /\ PairsDone' = PairsDone + 1 ]_vars

\* two shops over two days got more rows than the least and fewer than the most
C9_Witness ==
    /\ gpc = "done"
    /\ gargs.shop_id = None
    /\ ShopCount * (gargs.days_back + 1) = 4
    /\ all_data > 4 * 5
    /\ all_data < 4 * gargs.num_logs_per_shop

\* the batches of len rows, in order: rows 1..100, 101..200, ...
RECURSIVE BatchesUpTo(_, _)
BatchesUpTo(n, len) ==
    IF n = 0 THEN <<>>
    ELSE Append(BatchesUpTo(n - 1, len),
                <<100 * (n - 1) + 1, IF 100 * n <= len THEN 100 * n ELSE len>>)

\* the rows of the batches attempted so far
AttemptedRows == IF gcalls = <<>> THEN 0 ELSE gcalls[Len(gcalls)][2]

\* C8: the insert loop attempts the consecutive batches of 100 rows, each once
\* and in order, whatever the earlier attempts did: a raised insert is caught,
\* the loop goes on to the end, and rows already inserted stay inserted.
C8_BatchInsertion ==
    /\ [](  /\ gpc = "insert" => gcalls = BatchesUpTo(Len(gcalls), all_data) /\ 100 * Len(gcalls) < all_data
            /\ (gpc = "done" /\ all_data > 0) =>
                   /\ gcalls = BatchesUpTo(Len(gcalls), all_data)
                   /\ 100 * (Len(gcalls) - 1) < all_data
                   /\ all_data <= 100 * Len(gcalls)
            /\ gfailed > 0 => gpc \in {"insert", "done"}
            /\ gtable + 100 * gfailed >= AttemptedRows )
    /\ [][ /\ gtable' >= gtable
           /\ gcalls' # gcalls => Len(gcalls') = Len(gcalls) + 1 ]_vars

\* three batches, the last a short one; one insert raised and the others' rows
\* are in the table
C8_Witness ==
    /\ gpc = "done"
    /\ Len(gcalls) = 3
    /\ all_data % 100 # 0
    /\ gfailed = 1
    /\ gtable = all_data - 100

----------------------------------------------------------------------------
(* check_data.py *)

SampleLimit == 5        \* .limit(5), line 33
PrintLimit == 3         \* sample.data[:3], line 35

\* the rows of terminal_logs
TableRows == Len(logs) + gtable

\* line 22, lines 13-17: the credentials are missing
ChkCredError ==
    /\ cpc = "idle"
    /\ ~CredsOk(env)
    /\ cpc' = "RuntimeError"
    /\ UNCHANGED <<env, clock, ticks, logs, store, aggVars, genVars, ccalls, ccount, cprinted>>

\* lines 28-29: the exact count
ChkCount ==
    /\ cpc = "idle"
    /\ CredsOk(env)
    /\ ccalls' = Append(ccalls, [op |-> "select", count |-> "exact", limit |-> 1])
    /\ ccount' = Some(TableRows)
    /\ cpc' = "counted"
    /\ UNCHANGED <<env, clock, ticks, logs, store, aggVars, genVars, cprinted>>

\* lines 28, 41-44: the count query raises, the error is printed
ChkCountFail ==
    /\ cpc = "idle"
    /\ CredsOk(env)
    /\ ccalls' = Append(ccalls, [op |-> "select", count |-> "exact", limit |-> 1])
    /\ cpc' = "done"
    /\ UNCHANGED <<env, clock, ticks, logs, store, aggVars, genVars, ccount, cprinted>>

\* lines 39-40: the table is empty
ChkEmpty ==
    /\ cpc = "counted"
    /\ Val(ccount) = 0
    /\ cpc' = "done"
    /\ UNCHANGED <<env, clock, ticks, logs, store, aggVars, genVars, ccalls, ccount, cprinted>>

\* lines 32-38: up to 5 rows are fetched and up to 3 of them printed
ChkSample ==
    /\ cpc = "counted"
    /\ Val(ccount) > 0
    /\ ccalls' = Append(ccalls, [op |-> "select", count |-> "none", limit |-> SampleLimit])
    /\ cprinted' = Min(PrintLimit, Min(SampleLimit, TableRows))
    /\ cpc' = "done"
    /\ UNCHANGED <<env, clock, ticks, logs, store, aggVars, genVars, ccount>>

\* lines 33, 41-44: the sample query raises, the error is printed
ChkSampleFail ==
    /\ cpc = "counted"
    /\ Val(ccount) > 0
    /\ ccalls' = Append(ccalls, [op |-> "select", count |-> "none", limit |-> SampleLimit])
    /\ cpc' = "done"
    /\ UNCHANGED <<env, clock, ticks, logs, store, aggVars, genVars, ccount, cprinted>>

----------------------------------------------------------------------------
(* The three scripts under every setting of the credentials *)

SmallArgs ==
    { [num_shops |-> 1, num_logs_per_shop |-> MinLogs, days_back |-> 0, shop_id |-> None],
      [num_shops |-> 1, num_logs_per_shop |-> MinLogs - 1, days_back |-> 0, shop_id |-> None],
      [num_shops |-> 0, num_logs_per_shop |-> MinLogs, days_back |-> 0, shop_id |-> None] }

InitCreds ==
    /\ env \in AllEnvs
    /\ clock \in StartClocks
    /\ ticks = 0
    /\ logs \in { <<>>,
                  <<LogRow(Some("A"), Some("+6581234567"), clock.date, clock.hour)>>,
                  <<LogRow(Some("A"), Some("+6581234567"), MinusOneDay(clock.date), clock.hour)>> }
    /\ store = {}
    /\ InitAgg
    /\ gargs \in SmallArgs
    /\ InitGen
    /\ InitChk

NextCreds ==
    \/ AggCredError
    \/ AggFetch
    \/ AggNoData
    \/ AggNoDataForDate
    \/ AggFilter
    \/ AggSave
    \/ AggSaveFail
    \/ GenCredError
    \/ GenStart
    \/ GenLogs
    \/ GenValueError
    \/ GenNoData
    \/ GenBeginInsert
    \/ GenInsertData
    \/ GenInsertNone
    \/ GenInsertNoData
    \/ GenInsertError
    \/ ChkCredError
    \/ ChkCount
    \/ ChkCountFail
    \/ ChkEmpty
    \/ ChkSample
    \/ ChkSampleFail

CredSpec == InitCreds /\ [][NextCreds]_vars

Unset(o) == o = None \/ o = Some("")
CredentialsMissing == Unset(env.url) \/ (Unset(env.srk) /\ Unset(env.anon))

\* C10: with the store URL unset or empty, or both keys unset or empty, each
\* script that has started has raised RuntimeError and none has made a remote
\* call: nothing fetched, nothing inserted, no summary written.
C10_MissingCredentials ==
    CredentialsMissing =>
        /\ pc \in {"idle", "RuntimeError"}
        /\ gpc \in {"idle", "RuntimeError"}
        /\ cpc \in {"idle", "RuntimeError"}
        /\ calls = <<>> /\ df = <<>> /\ store = {}
        /\ gcalls = <<>> /\ gtable = 0
        /\ ccalls = <<>> /\ ccount = None

\* the URL is set, both keys are empty strings, the three scripts have raised
C10_Witness ==
    /\ env.url = SET /\ env.srk = Some("") /\ env.anon = Some("")
    /\ pc = "RuntimeError"
    /\ gpc = "RuntimeError"
    /\ cpc = "RuntimeError"

====
